---------------------------- MODULE Spec2Model ----------------------------
(***************************************************************************)
(* Lily: the security-rule transformer (transform / validate / format),    *)
(* the outbound and inbound processors built on it, and the metadata       *)
(* store, event bus and queues they drive.                                 *)
(*                                                                         *)
(* Encoding of Python values.                                              *)
(*   dict            a function whose DOMAIN is the set of keys present    *)
(*   None (scalar)   the string None                                       *)
(*   list-or-None    [kind |-> "list" | "null", items |-> <<...>>]         *)
(*   dict-or-None    [kind |-> "map"  | "null", m |-> the dict]            *)
(*   a call outcome  [ok, val, exc, msg]: a return value or the exception  *)
(*                   that propagated out of the call                       *)
(***************************************************************************)
EXTENDS Integers, Sequences, FiniteSets, TLC

VARIABLES
    fnArg,      \* the rule a direct call of the transformer is made with
    fnRet,      \* the last direct call: [op, target, out]
    now,        \* the clock read by datetime.utcnow()
    program,    \* the process the run follows: outbound/processor.py or
                \* inbound/processor.py (each has its own main)
    webhook_secret,         \* settings.MONTE_CARLO_WEBHOOK_SECRET
    security_transformer,   \* OutboundProcessor.security_transformer: the real
                            \* SecurityTransformer or the tests' Mock of it
    table,      \* the DynamoDB table: event_id -> item
    bus,        \* the entries EventBridge has accepted
    outQueue,   \* the messages on the outbound queue
    inQueue,    \* the messages on the inbound queue
    last,       \* the last processor call: [op, arg, out, calls], calls being
                \* the calls it made on the table, the bus and the queue
    pc,         \* where start_processing is: not called, at receive_message,
                \* or inside the for loop over the received messages
    messages,   \* start_processing's local: the batch receive_message returned
    handled,    \* whether process_sqs_message returned, for each message of the
                \* batch the for loop has gone through so far
    updates,    \* the update requests that have read the stored rule and not
                \* yet written
    created     \* the request bodies POST /security/rules has stored a rule
                \* for during the current clock second

\* what construction fixes
config == <<program, webhook_secret, security_transformer>>

\* the position of the consumer loop
consumer == <<pc, messages, handled>>

sysVars == <<config, table, bus, outQueue, inQueue, last, consumer, updates>>

vars == <<fnArg, fnRet, now, config, table, bus, outQueue, inQueue, last,
          consumer, updates, created>>

----------------------------------------------------------------------------
(* Bounds of the model *)

\* conditions plus actions of an input rule, in total
MaxItems == 2

\* the last second the clock reaches
MaxClock == 1

----------------------------------------------------------------------------
(* Python values and call outcomes *)

None == "None"

PyList(items) == [kind |-> "list", items |-> items]
PyNullList == [kind |-> "null", items |-> <<>>]

EmptyDict == [k \in {} |-> None]
PyMap(m) == [kind |-> "map", m |-> m]
PyNullMap == [kind |-> "null", m |-> EmptyDict]

NoValue == <<>>
Return(v) == [ok |-> TRUE, val |-> v, exc |-> "", msg |-> ""]
Raise(e, text) == [ok |-> FALSE, val |-> NoValue, exc |-> e, msg |-> text]

\* d.get(k, default)
Get(d, k, default) == IF k \in DOMAIN d THEN d[k] ELSE default

----------------------------------------------------------------------------
(* SecurityTransformer *)

supported_rule_types == {"PII", "GDPR", "CUSTOM"}

\* datetime.utcnow().isoformat(), the clock counting whole seconds
IsoFormat(t) == "t" \o ToString(t)

\* the stamp stops at the day: strftime('%Y%m%d')
_generate_rule_id_by_day(t) == "rule_" \o ToString(t \div 86400)

\* "rule_" + strftime('%Y%m%d%H%M%S')
_generate_rule_id(t) == "rule_" \o ToString(t)

ConditionKeys == {"field", "operator", "value"}

transformed_condition(c) ==
    PyMap([k \in ConditionKeys \cup {"metadata"} |->
             IF k = "metadata"
             THEN [description |-> Get(c, "description", ""),
                   severity |-> Get(c, "severity", "medium")]
             ELSE c[k]])

RECURSIVE TransformConditionsLoop(_, _, _)
TransformConditionsLoop(items, i, acc) ==
    IF i > Len(items) THEN Return(PyList(acc))
    ELSE LET condition == items[i] IN
         IF condition.kind = "null"
         THEN Raise("TypeError", "argument of type 'NoneType' is not iterable")
         ELSE IF ~(\A k \in ConditionKeys : k \in DOMAIN condition.m)
         THEN Raise("ValueError", "Invalid condition format")
         ELSE TransformConditionsLoop(items, i + 1,
                  Append(acc, transformed_condition(condition.m)))

_transform_conditions(conditions) ==
    IF conditions.kind = "null"
    THEN Raise("TypeError", "'NoneType' object is not iterable")
    ELSE TransformConditionsLoop(conditions.items, 1, <<>>)

\* the default of severity copied for priority
transformed_action_medium(a) ==
    PyMap([k \in {"type", "parameters", "metadata"} |->
             CASE k = "type" -> a["type"]
               [] k = "parameters" -> Get(a, "parameters", "{}")
               [] k = "metadata" ->
                    [description |-> Get(a, "description", ""),
                     priority |-> Get(a, "priority", "medium")]])

transformed_action(a) ==
    PyMap([k \in {"type", "parameters", "metadata"} |->
             CASE k = "type" -> a["type"]
               [] k = "parameters" -> Get(a, "parameters", "{}")
               [] k = "metadata" ->
                    [description |-> Get(a, "description", ""),
                     priority |-> Get(a, "priority", "normal")]])

RECURSIVE TransformActionsLoop(_, _, _)
TransformActionsLoop(items, i, acc) ==
    IF i > Len(items) THEN Return(PyList(acc))
    ELSE LET action == items[i] IN
         IF action.kind = "null"
         THEN Raise("TypeError", "argument of type 'NoneType' is not iterable")
         ELSE IF "type" \notin DOMAIN action.m
         THEN Raise("ValueError", "Invalid action format")
         ELSE TransformActionsLoop(items, i + 1,
                  Append(acc, transformed_action(action.m)))

_transform_actions(actions) ==
    IF actions.kind = "null"
    THEN Raise("TypeError", "'NoneType' object is not iterable")
    ELSE TransformActionsLoop(actions.items, 1, <<>>)

\* the dict of lines 17-30, its conditions and actions being the outcomes of
\* the two helper calls: the first of them that raised leaves the function
\* asset_id and asset_type are copied only when the raw rule has them
build_transformed_rule_present_keys(rule_data, t, conds, acts) ==
    IF ~conds.ok THEN conds
    ELSE IF ~acts.ok THEN acts
    ELSE Return(
        [k \in {"rule_id", "rule_type", "conditions", "actions", "metadata"}
                \cup (DOMAIN rule_data \cap {"asset_id", "asset_type"}) |->
           CASE k = "rule_id" -> Get(rule_data, "rule_id", _generate_rule_id(t))
             [] k = "rule_type" -> rule_data["rule_type"]
             [] k = "asset_id" -> rule_data["asset_id"]
             [] k = "asset_type" -> rule_data["asset_type"]
             [] k = "conditions" -> conds.val
             [] k = "actions" -> acts.val
             [] k = "metadata" ->
                  [created_at |-> IsoFormat(t), updated_at |-> IsoFormat(t),
                   source |-> "atlan", version |-> "1.0"]])

build_transformed_rule(rule_data, t, conds, acts) ==
    IF ~conds.ok THEN conds
    ELSE IF ~acts.ok THEN acts
    ELSE Return(
        [k \in {"rule_id", "rule_type", "asset_id", "asset_type",
                "conditions", "actions", "metadata"} |->
           CASE k = "rule_id" -> Get(rule_data, "rule_id", _generate_rule_id(t))
             [] k = "rule_type" -> rule_data["rule_type"]
             [] k = "asset_id" -> Get(rule_data, "asset_id", None)
             [] k = "asset_type" -> Get(rule_data, "asset_type", None)
             [] k = "conditions" -> conds.val
             [] k = "actions" -> acts.val
             [] k = "metadata" ->
                  [created_at |-> IsoFormat(t), updated_at |-> IsoFormat(t),
                   source |-> "atlan", version |-> "1.0"]])

RuleTypeMissing(rule_data) == "rule_type" \notin DOMAIN rule_data

\* the check of line 14 left out
RuleTypeUnsupported_skipped(rule_data) == FALSE

RuleTypeUnsupported(rule_data) == rule_data["rule_type"] \notin supported_rule_types

transform_security_rule(rule_data, t) ==
    IF RuleTypeMissing(rule_data)
    THEN Raise("ValueError", "Missing required field: rule_type")
    ELSE IF RuleTypeUnsupported(rule_data)
    THEN Raise("ValueError", "Unsupported rule type: " \o rule_data["rule_type"])
    ELSE build_transformed_rule(rule_data, t,
             _transform_conditions(Get(rule_data, "conditions", PyList(<<>>))),
             _transform_actions(Get(rule_data, "actions", PyList(<<>>))))

\* for x in xs: if not all(k in x for k in keys): return False
\* "pass" when the loop runs to its end, "false" when it returns False,
\* "TypeError" when `k in x` or the iteration itself raises
RECURSIVE ValidateLoop(_, _, _)
ValidateLoop(items, i, keys) ==
    IF i > Len(items) THEN "pass"
    ELSE IF items[i].kind = "null" THEN "TypeError"
    ELSE IF ~(\A k \in keys : k \in DOMAIN items[i].m) THEN "false"
    ELSE ValidateLoop(items, i + 1, keys)

ValidateItems(xs, keys) ==
    IF xs.kind = "null" THEN "TypeError"
    ELSE ValidateLoop(xs.items, 1, keys)

\* the conditions loop, then the actions loop, then return True
ValidateOutcome(c, a) ==
    IF c = "TypeError" THEN Raise("TypeError", "'NoneType' object is not iterable")
    ELSE IF c = "false" THEN Return(FALSE)
    ELSE IF a = "TypeError" THEN Raise("TypeError", "'NoneType' object is not iterable")
    ELSE IF a = "false" THEN Return(FALSE)
    ELSE Return(TRUE)

\* asset_id dropped from the list
required_fields_without_asset == {"rule_type", "conditions", "actions"}

required_fields == {"rule_type", "asset_id", "conditions", "actions"}

validate_rule(rule) ==
    IF ~(\A field \in required_fields : field \in DOMAIN rule)
    THEN Return(FALSE)
    ELSE IF rule["rule_type"] \notin supported_rule_types
    THEN Return(FALSE)
    ELSE ValidateOutcome(ValidateItems(rule["conditions"], ConditionKeys),
                         ValidateItems(rule["actions"], {"type"}))

\* [f(x) for x in xs] where f subscripts x with each key of keys: the first
\* element that is None or lacks a key raises
RECURSIVE FormatLoop(_, _, _, _)
FormatLoop(items, i, keys, acc) ==
    IF i > Len(items) THEN Return(acc)
    ELSE IF items[i].kind = "null"
    THEN Raise("TypeError", "'NoneType' object is not subscriptable")
    ELSE IF ~(\A k \in keys : k \in DOMAIN items[i].m)
    THEN Raise("KeyError", "missing key")
    ELSE FormatLoop(items, i + 1, keys, Append(acc, items[i].m))

FormatItems(xs, keys) ==
    IF xs.kind = "null"
    THEN Raise("TypeError", "'NoneType' object is not iterable")
    ELSE FormatLoop(xs.items, 1, keys, <<>>)

ConditionTriple(c) ==
    [column |-> c["field"], operator |-> c["operator"], value |-> c["value"]]

ActionPair(a) == [type |-> a["type"], parameters |-> a["parameters"]]

\* the list comprehension over conditions: r is FormatItems' verdict on them
ConditionTriples(r) ==
    IF ~r.ok THEN r
    ELSE Return([i \in 1..Len(r.val) |-> ConditionTriple(r.val[i])])

\* the list comprehension over actions
ActionPairs(r) ==
    IF ~r.ok THEN r
    ELSE Return([i \in 1..Len(r.val) |-> ActionPair(r.val[i])])

\* the triples come out in reverse order
ConditionTriplesReversed(r) ==
    IF ~r.ok THEN r
    ELSE Return([i \in 1..Len(r.val) |-> ConditionTriple(r.val[Len(r.val) + 1 - i])])

_format_snowflake_conditions_reversed(conditions) ==
    ConditionTriplesReversed(FormatItems(conditions, ConditionKeys))

_format_snowflake_conditions(conditions) ==
    ConditionTriples(FormatItems(conditions, ConditionKeys))

_format_databricks_conditions(conditions) ==
    ConditionTriples(FormatItems(conditions, ConditionKeys))

_format_snowflake_actions(actions) ==
    ActionPairs(FormatItems(actions, {"type", "parameters"}))

_format_databricks_actions(actions) ==
    ActionPairs(FormatItems(actions, {"type", "parameters"}))

\* the dict of lines 115-123, conds and acts being the outcomes of the two
\* helper calls
SnowflakePolicy(rule, conds, acts) ==
    IF ~conds.ok THEN conds
    ELSE IF ~acts.ok THEN acts
    ELSE Return([type |-> "snowflake_policy",
                 name |-> "atlan_" \o rule["rule_id"],
                 database |-> Get(rule, "database", "PUBLIC"),
                 schema |-> Get(rule, "schema", "PUBLIC"),
                 table |-> Get(rule, "table", None),
                 conditions |-> conds.val,
                 actions |-> acts.val])

\* rule['rule_id'], rule["conditions"] and rule["actions"] raise KeyError when
\* the key is absent
_format_for_snowflake(rule) ==
    IF "rule_id" \notin DOMAIN rule THEN Raise("KeyError", "rule_id")
    ELSE IF "conditions" \notin DOMAIN rule THEN Raise("KeyError", "conditions")
    ELSE IF "actions" \notin DOMAIN rule
    THEN SnowflakePolicy(rule, _format_snowflake_conditions(rule["conditions"]),
                         Raise("KeyError", "actions"))
    ELSE SnowflakePolicy(rule, _format_snowflake_conditions(rule["conditions"]),
                         _format_snowflake_actions(rule["actions"]))

\* the dict of lines 127-135
DatabricksPolicy(rule, conds, acts, schema_default) ==
    IF ~conds.ok THEN conds
    ELSE IF ~acts.ok THEN acts
    ELSE Return([type |-> "databricks_policy",
                 name |-> "atlan_" \o rule["rule_id"],
                 catalog |-> Get(rule, "catalog", "hive_metastore"),
                 schema |-> Get(rule, "schema", schema_default),
                 table |-> Get(rule, "table", None),
                 conditions |-> conds.val,
                 actions |-> acts.val])

FormatForDatabricks(rule, schema_default) ==
    IF "rule_id" \notin DOMAIN rule THEN Raise("KeyError", "rule_id")
    ELSE IF "conditions" \notin DOMAIN rule THEN Raise("KeyError", "conditions")
    ELSE IF "actions" \notin DOMAIN rule
    THEN DatabricksPolicy(rule, _format_databricks_conditions(rule["conditions"]),
                          Raise("KeyError", "actions"), schema_default)
    ELSE DatabricksPolicy(rule, _format_databricks_conditions(rule["conditions"]),
                          _format_databricks_actions(rule["actions"]), schema_default)

\* the snowflake default copied for schema
_format_for_databricks_public(rule) == FormatForDatabricks(rule, "PUBLIC")

_format_for_databricks(rule) == FormatForDatabricks(rule, "default")

\* an unknown target falls through to the last formatter
format_for_downstream_fallthrough(rule, target_system) ==
    IF target_system = "snowflake" THEN _format_for_snowflake(rule)
    ELSE _format_for_databricks(rule)

format_for_downstream(rule, target_system) ==
    IF target_system = "snowflake" THEN _format_for_snowflake(rule)
    ELSE IF target_system = "databricks" THEN _format_for_databricks(rule)
    ELSE Raise("ValueError", "Unsupported target system: " \o target_system)

----------------------------------------------------------------------------
(* The rules the transformer is called with *)

Restrict(f, S) == [k \in S |-> f[k]]

CondFull(i) ==
    [field |-> <<"email", "ssn">>[i],
     operator |-> <<"contains", "eq">>[i],
     value |-> <<"@", None>>[i]]

\* complete conditions, with and without the optional keys
FullConditions ==
    {PyMap(CondFull(1)), PyMap(CondFull(2)),
     PyMap(CondFull(1) @@ [description |-> "emails", severity |-> "high"])}

\* a condition lacking one required key, and a null in place of a condition
BadConditions ==
    {PyMap(Restrict(CondFull(1), ConditionKeys \ {k})) : k \in ConditionKeys}
        \cup {PyNullMap}

ActFull(i) ==
    [type |-> <<"mask", "deny">>[i],
     parameters |-> <<"{mask_type: email}", "{}">>[i]]

FullActions ==
    {PyMap(ActFull(1)), PyMap(ActFull(2)),
     PyMap(ActFull(1) @@ [description |-> "hide", priority |-> "high"])}

\* an action without parameters, one without type, and a null
PartialActions ==
    {PyMap(Restrict(ActFull(1), {"type"})),
     PyMap(Restrict(ActFull(1), {"parameters"})),
     PyNullMap}

SeqsUpTo(S, n) == UNION {[1..m -> S] : m \in 0..n}

AbsentList == [kind |-> "absent", items |-> <<>>]

\* the (conditions, actions) pairs with at most MaxItems elements in total;
\* either may also be null, or absent from the rule
ItemLists(C, A) ==
    {ca \in ({PyList(x) : x \in SeqsUpTo(C, MaxItems)} \cup {PyNullList, AbsentList}) \X
            ({PyList(x) : x \in SeqsUpTo(A, MaxItems)} \cup {PyNullList, AbsentList}) :
        Len(ca[1].items) + Len(ca[2].items) <= MaxItems}

RuleTypeInputs == {"absent", "PII", "GDPR", "CUSTOM", "HIPAA"}

\* rules of every shape: each required key present or not, the lists well
\* formed or not; no location keys
ShapeRules ==
    {Restrict([rule_type |-> rt, rule_id |-> id, asset_id |-> asset,
               conditions |-> ca[1], actions |-> ca[2]],
              {k \in {"rule_type"} : rt # "absent"}
                \cup {k \in {"rule_id"} : id # "absent"}
                \cup {k \in {"asset_id"} : asset # "absent"}
                \cup {k \in {"conditions"} : ca[1].kind # "absent"}
                \cup {k \in {"actions"} : ca[2].kind # "absent"}) :
        rt \in RuleTypeInputs, id \in {"absent", "r1"}, asset \in {"absent", "a1"},
        ca \in ItemLists(FullConditions \cup BadConditions,
                         FullActions \cup PartialActions)}

LocationKeys == {"database", "schema", "table", "catalog"}

Location == [database |-> "db1", schema |-> "sch1", table |-> "tbl1", catalog |-> "cat1"]

\* complete rules carrying any subset of the location keys
LocatedRules ==
    {[rule_type |-> "PII", rule_id |-> "r1", asset_id |-> "a1",
      conditions |-> ca[1], actions |-> ca[2]] @@ Restrict(Location, L) :
        L \in SUBSET LocationKeys,
        ca \in {x \in ItemLists({PyMap(CondFull(1)), PyMap(CondFull(2))},
                                {PyMap(ActFull(1)), PyMap(ActFull(2))}) :
                  x[1].kind = "list" /\ x[2].kind = "list"}}

RuleInputs == ShapeRules \cup LocatedRules

Targets == {"snowflake", "databricks", "bogus", "unknown_target"}

----------------------------------------------------------------------------
(* DynamoDBStorage *)

\* store_metadata builds the item and puts it: the item replaces whatever the
\* table holds under the same event_id
StoredItem(metadata, t) ==
    [event_id |-> metadata["event_id"],
     event_type |-> Get(metadata, "event_type", "unknown"),
     timestamp |-> Get(metadata, "timestamp", IsoFormat(t)),
     source |-> Get(metadata, "source", "unknown"),
     tenant_id |-> Get(metadata, "tenant_id", "default"),
     payload |-> Get(metadata, "payload", EmptyDict),
     metadata |-> Get(metadata, "metadata", EmptyDict),
     created_at |-> IsoFormat(t),
     updated_at |-> IsoFormat(t)]

\* a conditional put (attribute_not_exists): a record already stored under
\* the event_id is kept
put_item_if_absent(tbl, item) ==
    [id \in DOMAIN tbl \cup {item.event_id} |->
        IF id \in DOMAIN tbl THEN tbl[id] ELSE item]

put_item(tbl, item) ==
    [id \in DOMAIN tbl \cup {item.event_id} |->
        IF id = item.event_id THEN item ELSE tbl[id]]

----------------------------------------------------------------------------
(* OutboundProcessor *)

\* what the services do during one processor call: all accept ("none"), or
\* the named call is the one that fails (the calls after it are never made)
Env == {"none", "requests.get", "put_item", "put_events", "delete_message"}

\* the tests' Mock(spec=SecurityTransformer): validate_rule.return_value and
\* the outcome of format_for_downstream per target (side_effect)
MockConfigs == [valid : BOOLEAN, snowflake : BOOLEAN, databricks : BOOLEAN]

\* the real transformer ignores the configuration
NoMock == [valid |-> TRUE, snowflake |-> TRUE, databricks |-> TRUE]

\* the configurations of the transformer in use: the real one has none
Configs(tf) ==
    IF tf = "mock" THEN MockConfigs
    ELSE {NoMock}

MockPolicy(target_system) == [type |-> target_system \o "_policy", name |-> "atlan_rule_123"]

Transform(tf, event, t) ==
    IF tf = "real" THEN transform_security_rule(event, t) ELSE Return(event)

Validate(tf, mock, rule) ==
    IF tf = "real" THEN validate_rule(rule) ELSE Return(mock.valid)

Format(tf, mock, rule, target_system) ==
    IF tf = "real" THEN format_for_downstream(rule, target_system)
    ELSE IF mock[target_system] THEN Return(MockPolicy(target_system))
    ELSE Raise("Exception", "side_effect")

\* a processor call's progress: the outcome so far and the table, bus and
\* queue as the calls made so far have left them
Step(out, tbl, b, q, calls) ==
    [out |-> out, table |-> tbl, bus |-> b, queue |-> q, calls |-> calls]

Called(fn, key) == [fn |-> fn, key |-> key]

\* the first failure leaves the function, nothing is returned
downstream_rules_unguarded(snowflake_rule, databricks_rule) ==
    IF ~snowflake_rule.ok THEN snowflake_rule
    ELSE IF ~databricks_rule.ok THEN databricks_rule
    ELSE Return([target_system \in {"snowflake", "databricks"} |->
                    IF target_system = "snowflake" THEN snowflake_rule.val
                    ELSE databricks_rule.val])

\* the dict the two try blocks fill: a target is entered when its call
\* returned, an exception is printed and dropped
downstream_rules(snowflake_rule, databricks_rule) ==
    Return([target_system \in
               {x \in {"snowflake"} : snowflake_rule.ok}
                 \cup {x \in {"databricks"} : databricks_rule.ok} |->
               IF target_system = "snowflake" THEN snowflake_rule.val
               ELSE databricks_rule.val])

_format_for_downstream_systems(tf, mock, rule) ==
    downstream_rules(Format(tf, mock, rule, "snowflake"),
                     Format(tf, mock, rule, "databricks"))

PublishedEntry(event) ==
    [Source |-> "atlan.lily", DetailType |-> "security_rule",
     Detail |-> event, EventBusName |-> "atlan-lily-bus"]

\* the formatted map is left out of the returned dict
publish_and_return_unformatted(env, transformed_rule, event_id, formatted, tbl, b, q) ==
    IF ~formatted.ok
    THEN Step(formatted, tbl, b, q, <<Called("store_metadata", event_id)>>)
    ELSE IF env = "put_events"
    THEN Step(Raise("ClientError", "put_events"), tbl, b, q,
              <<Called("store_metadata", event_id), Called("put_events", event_id)>>)
    ELSE Step(Return([event_id |-> event_id, status |-> "processed",
                      downstream_rules |-> EmptyDict]),
              tbl, b \cup {PublishedEntry(transformed_rule)}, q,
              <<Called("store_metadata", event_id), Called("put_events", event_id)>>)

\* _publish_to_eventbridge, then the returned dict; formatted is the outcome
\* of _format_for_downstream_systems, tbl the table after store_metadata
publish_and_return(env, transformed_rule, event_id, formatted, tbl, b, q) ==
    IF ~formatted.ok
    THEN Step(formatted, tbl, b, q, <<Called("store_metadata", event_id)>>)
    ELSE IF env = "put_events"
    THEN Step(Raise("ClientError", "put_events"), tbl, b, q,
              <<Called("store_metadata", event_id), Called("put_events", event_id)>>)
    ELSE Step(Return([event_id |-> event_id, status |-> "processed",
                      downstream_rules |-> formatted.val]),
              tbl, b \cup {PublishedEntry(transformed_rule)}, q,
              <<Called("store_metadata", event_id), Called("put_events", event_id)>>)

\* the event goes to the bus first, the record is written afterwards
store_and_publish_after(tf, mock, env, transformed_rule, item, tbl, b, q) ==
    IF env = "put_events"
    THEN Step(Raise("ClientError", "put_events"), tbl, b, q,
              <<Called("put_events", item.event_id)>>)
    ELSE IF env = "put_item"
    THEN Step(Raise("ClientError", "put_item"), tbl,
              b \cup {PublishedEntry(transformed_rule)}, q,
              <<Called("put_events", item.event_id),
                Called("store_metadata", item.event_id)>>)
    ELSE publish_and_return(env, transformed_rule, item.event_id,
                            _format_for_downstream_systems(tf, mock, transformed_rule),
                            put_item(tbl, item), b, q)

\* store_metadata, _format_for_downstream_systems, and the rest
store_and_publish(tf, mock, env, transformed_rule, item, tbl, b, q) ==
    IF env = "put_item"
    THEN Step(Raise("ClientError", "put_item"), tbl, b, q,
              <<Called("store_metadata", item.event_id)>>)
    ELSE publish_and_return(env, transformed_rule, item.event_id,
                            _format_for_downstream_systems(tf, mock, transformed_rule),
                            put_item(tbl, item), b, q)

\* the call goes on whatever validate_rule returned
validate_and_store_unchecked(tf, mock, env, transformed_rule, valid, t, tbl, b, q) ==
    IF "rule_id" \notin DOMAIN transformed_rule
    THEN Step(Raise("KeyError", "rule_id"), tbl, b, q, <<>>)
    ELSE IF "metadata" \notin DOMAIN transformed_rule
    THEN Step(Raise("KeyError", "metadata"), tbl, b, q, <<>>)
    ELSE store_and_publish(tf, mock, env, transformed_rule,
             StoredItem([event_id |-> transformed_rule["rule_id"],
                         event_type |-> "security_rule",
                         timestamp |-> transformed_rule["metadata"].created_at,
                         source |-> "atlan",
                         payload |-> transformed_rule], t),
             tbl, b, q)

\* `if not validate_rule(...)`: raise, else build the metadata of the
\* store_metadata call; valid is the outcome of validate_rule
validate_and_store(tf, mock, env, transformed_rule, valid, t, tbl, b, q) ==
    IF ~valid.ok THEN Step(valid, tbl, b, q, <<>>)
    ELSE IF ~valid.val
    THEN Step(Raise("ValueError", "Invalid security rule"), tbl, b, q, <<>>)
    ELSE IF "rule_id" \notin DOMAIN transformed_rule
    THEN Step(Raise("KeyError", "rule_id"), tbl, b, q, <<>>)
    ELSE IF "metadata" \notin DOMAIN transformed_rule
    THEN Step(Raise("KeyError", "metadata"), tbl, b, q, <<>>)
    ELSE store_and_publish(tf, mock, env, transformed_rule,
             StoredItem([event_id |-> transformed_rule["rule_id"],
                         event_type |-> "security_rule",
                         timestamp |-> transformed_rule["metadata"].created_at,
                         source |-> "atlan",
                         payload |-> transformed_rule], t),
             tbl, b, q)

\* transformed is the outcome of transform_security_rule
transform_and_validate(tf, mock, env, transformed, t, tbl, b, q) ==
    IF ~transformed.ok THEN Step(transformed, tbl, b, q, <<>>)
    ELSE validate_and_store(tf, mock, env, transformed.val,
                            Validate(tf, mock, transformed.val), t, tbl, b, q)

process_security_event(tf, mock, env, event, t, tbl, b, q) ==
    transform_and_validate(tf, mock, env, Transform(tf, event, t), t, tbl, b, q)

\* delete_message is sent whether or not the processing raised
delete_message_always(env, message, r) ==
    IF env = "delete_message"
    THEN Step(Raise("ClientError", "delete_message"), r.table, r.bus, r.queue,
              Append(r.calls, Called("delete_message", message.ReceiptHandle)))
    ELSE Step(r.out, r.table, r.bus,
              {m \in r.queue : m.ReceiptHandle # message.ReceiptHandle},
              Append(r.calls, Called("delete_message", message.ReceiptHandle)))

\* the statements after the processing call inside the try block: r is the
\* processing call's outcome; an exception skips delete_message
delete_message(env, message, r) ==
    IF ~r.out.ok THEN r
    ELSE IF env = "delete_message"
    THEN Step(Raise("ClientError", "delete_message"), r.table, r.bus, r.queue,
              Append(r.calls, Called("delete_message", message.ReceiptHandle)))
    ELSE Step(r.out, r.table, r.bus,
              {m \in r.queue : m.ReceiptHandle # message.ReceiptHandle},
              Append(r.calls, Called("delete_message", message.ReceiptHandle)))

\* json.loads(message["Body"]), process_security_event, delete_message; any
\* exception is printed and raised again
process_sqs_message(tf, mock, env, message, t, tbl, b, q) ==
    IF ~message.Body.json
    THEN Step(Raise("JSONDecodeError", "Expecting value"), tbl, b, q, <<>>)
    ELSE delete_message(env, message,
             process_security_event(tf, mock, env, message.Body.doc, t, tbl, b, q))

----------------------------------------------------------------------------
(* MonteCarloClient and InboundProcessor *)

\* a JSON text: whether it parses, the document it parses to, and whether it
\* is byte for byte what json.dumps gives for that document
JsonText(parses, doc, dumped) == [json |-> parses, doc |-> doc, dumped |-> dumped]

\* json.dumps(doc).encode()
JsonDumps(doc) == JsonText(TRUE, doc, TRUE)

\* hmac.new(secret, payload, sha256).hexdigest()
HmacSha256(secret, payload) == [secret |-> secret, payload |-> payload]

\* the empty string given as a signature
NoSignature == HmacSha256("", JsonText(FALSE, EmptyDict, FALSE))

verify_webhook_signature(secret, payload, signature) ==
    IF secret = "" THEN TRUE
    ELSE signature = HmacSha256(secret, payload)

webhook_required_fields == <<"id", "type", "timestamp", "data">>

parse_webhook_event(payload) ==
    LET missing == {i \in 1..Len(webhook_required_fields) :
                        webhook_required_fields[i] \notin DOMAIN payload}
    IN  IF missing # {}
        THEN Raise("ValueError", "Missing required field: "
                       \o webhook_required_fields[CHOOSE i \in missing :
                                                      \A j \in missing : i <= j])
        ELSE Return([event_id |-> payload["id"],
                     event_type |-> payload["type"],
                     timestamp |-> payload["timestamp"],
                     source |-> "monte_carlo",
                     payload |-> payload["data"]])

\* the two GETs of enrich_incident_data, then the combined mapping
enrich_incident_data(env, incident_data) ==
    IF "id" \notin DOMAIN incident_data THEN Raise("KeyError", "id")
    ELSE IF env = "requests.get" THEN Raise("HTTPError", "raise_for_status")
    ELSE Return([details |-> "details of " \o incident_data["id"],
                 affected_assets |-> "assets of " \o incident_data["id"],
                 metadata |-> "monte_carlo"] @@ incident_data)

InboundEntry(event) ==
    [Source |-> "atlan.lily", DetailType |-> event.event_type,
     Detail |-> event, EventBusName |-> "atlan-lily-bus"]

\* store_metadata of the enriched event, then _publish_event of the parsed one
store_and_publish_event(env, parsed_event, item, tbl, b, q) ==
    IF env = "put_item"
    THEN Step(Raise("ClientError", "put_item"), tbl, b, q,
              <<Called("store_metadata", item.event_id)>>)
    ELSE IF env = "put_events"
    THEN Step(Raise("ClientError", "put_events"), put_item(tbl, item), b, q,
              <<Called("store_metadata", item.event_id),
                Called("put_events", item.event_id)>>)
    ELSE Step(Return([event_id |-> item.event_id, status |-> "processed"]),
              put_item(tbl, item), b \cup {InboundEntry(parsed_event)}, q,
              <<Called("store_metadata", item.event_id),
                Called("put_events", item.event_id)>>)

\* enriched is the outcome of enrich_incident_data
enrich_and_store(env, parsed_event, enriched, t, tbl, b, q) ==
    IF ~enriched.ok THEN Step(enriched, tbl, b, q, <<>>)
    ELSE store_and_publish_event(env, parsed_event,
             StoredItem([event_id |-> parsed_event.event_id,
                         event_type |-> parsed_event.event_type,
                         timestamp |-> parsed_event.timestamp,
                         source |-> parsed_event.source,
                         payload |-> enriched.val], t),
             tbl, b, q)

\* parsed is the outcome of parse_webhook_event
parse_and_enrich(env, parsed, t, tbl, b, q) ==
    IF ~parsed.ok THEN Step(parsed, tbl, b, q, <<>>)
    ELSE enrich_and_store(env, parsed.val,
                          enrich_incident_data(env, parsed.val.payload), t, tbl, b, q)

\* json.loads and parse_webhook_event come before the signature check
process_webhook_parse_first(secret, env, payload, signature, t, tbl, b, q) ==
    IF ~payload.json
    THEN Step(Raise("JSONDecodeError", "Expecting value"), tbl, b, q, <<>>)
    ELSE IF ~parse_webhook_event(payload.doc).ok
    THEN Step(parse_webhook_event(payload.doc), tbl, b, q, <<>>)
    ELSE IF ~verify_webhook_signature(secret, payload, signature)
    THEN Step(Raise("ValueError", "Invalid webhook signature"), tbl, b, q, <<>>)
    ELSE parse_and_enrich(env, parse_webhook_event(payload.doc), t, tbl, b, q)

process_webhook(secret, env, payload, signature, t, tbl, b, q) ==
    IF ~verify_webhook_signature(secret, payload, signature)
    THEN Step(Raise("ValueError", "Invalid webhook signature"), tbl, b, q, <<>>)
    ELSE IF ~payload.json
    THEN Step(Raise("JSONDecodeError", "Expecting value"), tbl, b, q, <<>>)
    ELSE parse_and_enrich(env, parse_webhook_event(payload.doc), t, tbl, b, q)

\* json.loads(message["Body"]), process_webhook on the body dumped again with
\* the Signature attribute ("" when absent), delete_message
inbound_process_sqs_message(secret, env, message, t, tbl, b, q) ==
    IF ~message.Body.json
    THEN Step(Raise("JSONDecodeError", "Expecting value"), tbl, b, q, <<>>)
    ELSE delete_message(env, message,
             process_webhook(secret, env, JsonDumps(message.Body.doc),
                             message.Signature, t, tbl, b, q))

----------------------------------------------------------------------------
(* The events and messages the processors are given *)

ValidRule ==
    [rule_type |-> "PII", asset_id |-> "asset_123", asset_type |-> "table",
     conditions |-> PyList(<<PyMap(CondFull(1))>>),
     actions |-> PyList(<<PyMap(ActFull(1))>>)]

Events ==
    {ValidRule,                                         \* no rule_id
     ValidRule @@ [rule_id |-> "rule_123"],
     Restrict(ValidRule, DOMAIN ValidRule \ {"rule_type"}),
     transform_security_rule(ValidRule @@ [rule_id |-> "rule_123"], 0).val}

JsonBody(event) == JsonDumps(event)
InvalidJson == JsonText(FALSE, EmptyDict, FALSE)

OutMessages ==
    {[Body |-> InvalidJson, ReceiptHandle |-> "h0"],
     [Body |-> JsonBody(ValidRule), ReceiptHandle |-> "h1"]}

Incident ==
    [id |-> "inc_123", type |-> "incident_created", timestamp |-> "2024-03-15",
     data |-> [id |-> "inc_123", severity |-> "high"]]

\* the incident as its sender serialised it, not as json.dumps would
SentIncident == JsonText(TRUE, Incident, FALSE)

InMessages ==
    {[Body |-> InvalidJson, Signature |-> NoSignature, ReceiptHandle |-> "h0"],
     [Body |-> JsonDumps(Incident), ReceiptHandle |-> "h1",
      Signature |-> HmacSha256("s3cret", JsonDumps(Incident))],
     [Body |-> SentIncident, ReceiptHandle |-> "h2",
      Signature |-> HmacSha256("s3cret", SentIncident)],
     [Body |-> JsonDumps(Restrict(Incident, {"id", "type", "timestamp"})),
      Signature |-> NoSignature, ReceiptHandle |-> "h3"]}

\* direct calls of process_webhook: the payload bytes and the signature header
Webhooks ==
    {[payload |-> m.Body, signature |-> m.Signature] : m \in InMessages}
        \cup {[payload |-> JsonDumps([data |-> Restrict(Incident.data, {"severity"})]
                                        @@ Incident),
                signature |-> NoSignature]}

----------------------------------------------------------------------------
(* The running system *)

NoCall == [op |-> "none", target |-> "", out |-> Return(None)]

NoProcessorCall ==
    [op |-> "none", arg |-> EmptyDict, mock |-> NoMock, env |-> "none",
     out |-> Return(None), calls |-> <<>>]

\* what is known of a finished call: the method and its argument, what the
\* services and the mock were set to do, the outcome and the service calls made
Finished(op, arg, mock, env, r) ==
    [op |-> op, arg |-> arg, mock |-> mock, env |-> env,
     out |-> r.out, calls |-> r.calls]

\* the processes a run can follow: the outbound processor with the real
\* transformer or the tests' mock of it, the inbound processor with or
\* without a webhook secret configured
Deployments ==
    {<<"outbound", "", "real">>, <<"outbound", "", "mock">>,
     <<"inbound", "", "real">>, <<"inbound", "s3cret", "real">>}

SysInit ==
    /\ table = EmptyDict
    /\ bus = {}
    /\ outQueue = {}
    /\ inQueue = {}
    /\ last = NoProcessorCall
    /\ pc = "idle"
    /\ messages = <<>>
    /\ handled = <<>>
    /\ updates = {}
    /\ created = {}

Init ==
    /\ fnArg = EmptyDict
    /\ fnRet = NoCall
    /\ now = 0
    /\ \E d \in Deployments :
          program = d[1] /\ webhook_secret = d[2] /\ security_transformer = d[3]
    /\ SysInit

Tick ==
    /\ now < MaxClock
    /\ now' = now + 1
    /\ created' = {}
    /\ UNCHANGED <<fnArg, fnRet, sysVars>>

\* a producer sends a message to the outbound queue
SendOutbound ==
    \E m \in OutMessages :
        /\ program = "outbound"
        /\ m \notin outQueue
        /\ outQueue' = outQueue \cup {m}
        /\ UNCHANGED <<fnArg, fnRet, now, config, consumer, updates, created, table,
                       bus, inQueue, last>>

ProcessSecurityEvent ==
    \E event \in Events, mock \in Configs(security_transformer),
       env \in {"none", "put_item", "put_events"} :
        \E r \in {process_security_event(security_transformer, mock, env, event, now,
                                         table, bus, outQueue)} :
            /\ program = "outbound"
            /\ table' = r.table
            /\ bus' = r.bus
            /\ outQueue' = r.queue
            /\ last' = Finished("process_security_event", event, mock, env, r)
            /\ UNCHANGED <<fnArg, fnRet, now, config, consumer, updates, created,
                           inQueue>>

\* the test's direct call of the fan-out
FormatForDownstreamSystems ==
    \E rule \in Events, mock \in Configs(security_transformer) :
        /\ program = "outbound"
        /\ last' = Finished("_format_for_downstream_systems", rule, mock, "none",
                            Step(_format_for_downstream_systems(security_transformer,
                                                                mock, rule),
                                 table, bus, outQueue, <<>>))
        /\ UNCHANGED <<fnArg, fnRet, now, config, consumer, updates, created, table,
                       bus, outQueue, inQueue>>

\* the outbound consumer handles a message it has received
ProcessSqsMessage ==
    \E message \in outQueue, mock \in Configs(security_transformer),
       env \in {"none", "put_item", "put_events", "delete_message"} :
        \E r \in {process_sqs_message(security_transformer, mock, env, message, now,
                                      table, bus, outQueue)} :
            /\ program = "outbound"
            /\ table' = r.table
            /\ bus' = r.bus
            /\ outQueue' = r.queue
            /\ last' = Finished("process_sqs_message", message, mock, env, r)
            /\ UNCHANGED <<fnArg, fnRet, now, config, consumer, updates, created,
                           inQueue>>

\* a producer sends a message to the inbound queue
SendInbound ==
    \E m \in InMessages :
        /\ program = "inbound"
        /\ m \notin inQueue
        /\ inQueue' = inQueue \cup {m}
        /\ UNCHANGED <<fnArg, fnRet, now, config, consumer, updates, created, table,
                       bus, outQueue, last>>

ProcessWebhook ==
    \E w \in Webhooks, env \in {"none", "requests.get", "put_item", "put_events"} :
        \E r \in {process_webhook(webhook_secret, env, w.payload, w.signature, now,
                                  table, bus, inQueue)} :
            /\ program = "inbound"
            /\ table' = r.table
            /\ bus' = r.bus
            /\ inQueue' = r.queue
            /\ last' = Finished("process_webhook", w, NoMock, env, r)
            /\ UNCHANGED <<fnArg, fnRet, now, config, consumer, updates, created,
                           outQueue>>

\* the inbound consumer handles a message it has received
InboundProcessSqsMessage ==
    \E message \in inQueue, env \in Env :
        \E r \in {inbound_process_sqs_message(webhook_secret, env, message, now,
                                              table, bus, inQueue)} :
            /\ program = "inbound"
            /\ table' = r.table
            /\ bus' = r.bus
            /\ inQueue' = r.queue
            /\ last' = Finished("inbound.process_sqs_message", message, NoMock, env, r)
            /\ UNCHANGED <<fnArg, fnRet, now, config, consumer, updates, created,
                           outQueue>>

Next ==
    \/ Tick
    \/ SendOutbound
    \/ ProcessSecurityEvent
    \/ FormatForDownstreamSystems
    \/ ProcessSqsMessage
    \/ SendInbound
    \/ ProcessWebhook
    \/ InboundProcessSqsMessage

Spec == Init /\ [][Next]_vars

----------------------------------------------------------------------------
(* The consumer loop: start_processing of either processor *)

MaxNumberOfMessages == 10

\* the queue the running processor polls
Queue == IF program = "outbound" THEN outQueue ELSE inQueue

\* what receive_message can answer with when messages are waiting: any of
\* them, in any order, at most MaxNumberOfMessages; a message that was
\* received and not deleted is delivered again
Batches(q) ==
    UNION {{batch \in [1..n -> q] :
               \A a, b \in 1..n : a # b => batch[a] # batch[b]} :
           n \in 1..(IF Cardinality(q) < MaxNumberOfMessages
                     THEN Cardinality(q) ELSE MaxNumberOfMessages)}

\* an exception of process_sqs_message leaves the for loop: the outer handler
\* catches it and the while loop goes on with the next receive_message
for_message_unguarded(ok, n, batch) ==
    IF ok /\ n < Len(batch) THEN "process" ELSE "receive"

\* where the loop goes after the n-th message of the batch: the inner
\* try/except prints and continues, the for loop goes on to the next message,
\* and after the last one `while True` goes back to receive_message
for_message(ok, n, batch) ==
    IF n < Len(batch) THEN "process" ELSE "receive"

\* main(): the processor is constructed and start_processing entered
StartProcessing ==
    /\ pc = "idle"
    /\ program \in {"outbound", "inbound"}
    /\ pc' = "receive"
    /\ UNCHANGED <<fnArg, fnRet, now, config, table, bus, outQueue, inQueue, last,
                   messages, handled, updates, created>>

\* receive_message and response.get("Messages", []); an empty answer, like an
\* exception of receive_message, continues the while loop with nothing changed
ReceiveMessage ==
    /\ pc = "receive"
    /\ \E batch \in Batches(Queue) :
          /\ messages' = batch
          /\ handled' = <<>>
          /\ pc' = "process"
    /\ UNCHANGED <<fnArg, fnRet, now, config, table, bus, outQueue, inQueue, last,
                   updates, created>>

\* one turn of the outbound for loop: process_sqs_message inside try/except
OutboundForMessage ==
    /\ pc = "process"
    /\ program = "outbound"
    /\ \E mock \in Configs(security_transformer),
          env \in {"none", "put_item", "put_events", "delete_message"} :
          \E r \in {process_sqs_message(security_transformer, mock, env,
                                        messages[Len(handled) + 1], now,
                                        table, bus, outQueue)} :
              /\ table' = r.table
              /\ bus' = r.bus
              /\ outQueue' = r.queue
              /\ last' = Finished("process_sqs_message",
                                  messages[Len(handled) + 1], mock, env, r)
              /\ handled' = Append(handled, r.out.ok)
              /\ pc' = for_message(r.out.ok, Len(handled) + 1, messages)
    /\ UNCHANGED <<fnArg, fnRet, now, config, inQueue, messages, updates, created>>

\* one turn of the inbound for loop
InboundForMessage ==
    /\ pc = "process"
    /\ program = "inbound"
    /\ \E env \in Env :
          \E r \in {inbound_process_sqs_message(webhook_secret, env,
                                                messages[Len(handled) + 1], now,
                                                table, bus, inQueue)} :
              /\ table' = r.table
              /\ bus' = r.bus
              /\ inQueue' = r.queue
              /\ last' = Finished("inbound.process_sqs_message",
                                  messages[Len(handled) + 1], NoMock, env, r)
              /\ handled' = Append(handled, r.out.ok)
              /\ pc' = for_message(r.out.ok, Len(handled) + 1, messages)
    /\ UNCHANGED <<fnArg, fnRet, now, config, outQueue, messages, updates, created>>

NextLoop ==
    \/ Tick
    \/ SendOutbound
    \/ SendInbound
    \/ StartProcessing
    \/ ReceiveMessage
    \/ OutboundForMessage
    \/ InboundForMessage

SpecLoop == Init /\ [][NextLoop]_vars

----------------------------------------------------------------------------
(* The API (api/main.py): the two routes that write security rules *)

\* the answer to a request: the returned dict with FastAPI's default status,
\* or the HTTPException raised
Response(code, detail, body) == [status_code |-> code, detail |-> detail, body |-> body]

\* str(HTTPException(code, detail))
HttpExceptionStr(code, detail) == ToString(code) \o ": " \o detail

\* the two except clauses of the routes: ValueError becomes 400, every other
\* exception, an HTTPException raised in the try block included, becomes 500
ErrorResponse(raised) ==
    IF raised.exc = "ValueError" THEN Response(400, raised.msg, EmptyDict)
    ELSE Response(500, raised.msg, EmptyDict)

\* security_transformer.format_for_downstream(transformed_rule): the call
\* gives no target_system
format_for_downstream_without_target(rule) ==
    Raise("TypeError",
          "format_for_downstream() missing 1 required positional argument: 'target_system'")

\* storage.get_metadata: the item, or None
get_metadata(tbl, event_id) ==
    IF event_id \in DOMAIN tbl THEN PyMap(tbl[event_id]) ELSE PyNullMap

\* update_item with SET payload, updated_at: DynamoDB creates the item when
\* the key is new
update_item(tbl, event_id, payload, t) ==
    [id \in DOMAIN tbl \cup {event_id} |->
        IF id # event_id THEN tbl[id]
        ELSE IF id \in DOMAIN tbl
        THEN [tbl[id] EXCEPT !.payload = payload, !.updated_at = IsoFormat(t)]
        ELSE [event_id |-> event_id, payload |-> payload, updated_at |-> IsoFormat(t)]]

\* storage.update_metadata: an exception of update_item is printed and
\* swallowed (False is returned, which the route ignores)
update_metadata(env, tbl, event_id, payload, t) ==
    IF env = "update_item" THEN tbl ELSE update_item(tbl, event_id, payload, t)

\* the result of a route: the response, the table, the service calls made
Answer(response, tbl, calls) == [out |-> response, table |-> tbl, calls |-> calls]

\* lines 106-120 of create_security_rule: tbl is the table after
\* store_metadata, formatted the outcome of the format_for_downstream call
respond_created(env, transformed_rule, formatted, tbl) ==
    IF env = "put_item"
    THEN Answer(ErrorResponse(Raise("ClientError", "put_item")), tbl,
                <<Called("store_metadata", transformed_rule["rule_id"])>>)
    ELSE IF ~formatted.ok
    THEN Answer(ErrorResponse(formatted), tbl,
                <<Called("store_metadata", transformed_rule["rule_id"])>>)
    ELSE Answer(Response(200, "", [rule_id |-> transformed_rule["rule_id"],
                                   status |-> "created",
                                   downstream_rules |-> formatted.val]),
                tbl, <<Called("store_metadata", transformed_rule["rule_id"])>>)

\* lines 103-112: valid is the outcome of validate_rule
validate_and_create(env, transformed_rule, valid, t, tbl) ==
    IF ~valid.ok THEN Answer(ErrorResponse(valid), tbl, <<>>)
    ELSE IF ~valid.val
    THEN Answer(ErrorResponse(Raise("HTTPException",
                                    HttpExceptionStr(400, "Invalid rule format"))),
                tbl, <<>>)
    ELSE respond_created(env, transformed_rule,
             format_for_downstream_without_target(transformed_rule),
             IF env = "put_item" THEN tbl
             ELSE put_item(tbl, StoredItem(
                      [event_id |-> transformed_rule["rule_id"],
                       event_type |-> "security_rule",
                       timestamp |-> transformed_rule["metadata"].created_at,
                       source |-> "atlan",
                       payload |-> transformed_rule], t)))

\* transformed is the outcome of transform_security_rule
transform_and_create(env, transformed, t, tbl) ==
    IF ~transformed.ok THEN Answer(ErrorResponse(transformed), tbl, <<>>)
    ELSE validate_and_create(env, transformed.val, validate_rule(transformed.val), t, tbl)

\* POST /security/rules
create_security_rule(env, rule, t, tbl) ==
    transform_and_create(env, transform_security_rule(rule, t), t, tbl)

\* lines 144-155 of update_security_rule: tbl is the table after
\* update_metadata, formatted the outcome of the format_for_downstream call
respond_updated(rule_id, formatted, tbl) ==
    IF ~formatted.ok
    THEN Answer(ErrorResponse(formatted), tbl, <<Called("update_metadata", rule_id)>>)
    ELSE Answer(Response(200, "", [rule_id |-> rule_id, status |-> "updated",
                                   downstream_rules |-> formatted.val]),
                tbl, <<Called("update_metadata", rule_id)>>)

\* lines 141-147: valid is the outcome of validate_rule
validate_and_update(env, rule_id, transformed_rule, valid, t, tbl) ==
    IF ~valid.ok THEN Answer(ErrorResponse(valid), tbl, <<>>)
    ELSE IF ~valid.val
    THEN Answer(ErrorResponse(Raise("HTTPException",
                                    HttpExceptionStr(400, "Invalid rule format"))),
                tbl, <<>>)
    ELSE respond_updated(rule_id,
             format_for_downstream_without_target(transformed_rule),
             update_metadata(env, tbl, rule_id, transformed_rule, t))

\* transformed is the outcome of transform_security_rule
transform_and_update(env, rule_id, transformed, t, tbl) ==
    IF ~transformed.ok THEN Answer(ErrorResponse(transformed), tbl, <<>>)
    ELSE validate_and_update(env, rule_id, transformed.val,
                             validate_rule(transformed.val), t, tbl)

\* {**existing_rule["payload"], **rule}: the incoming keys win
updated_rule(payload, rule) == rule @@ payload

\* lines 135-139: existing_rule is what get_metadata returned
merge_and_update(env, rule_id, rule, existing_rule, t, tbl) ==
    IF existing_rule.kind = "null"
    THEN Answer(ErrorResponse(Raise("HTTPException",
                                    HttpExceptionStr(404, "Rule not found"))),
                tbl, <<>>)
    ELSE transform_and_update(env, rule_id,
             transform_security_rule(updated_rule(existing_rule.m.payload, rule), t),
             t, tbl)

\* PUT /security/rules/{rule_id}
update_security_rule(env, rule_id, rule, t, tbl) ==
    merge_and_update(env, rule_id, rule, get_metadata(tbl, rule_id), t, tbl)

\* the bodies of POST /security/rules
CreateBodies ==
    {ValidRule,
     [asset_id |-> "asset_456"] @@ ValidRule,
     ValidRule @@ [rule_id |-> "rule_123"],
     Restrict(ValidRule, DOMAIN ValidRule \ {"rule_type"})}

\* the bodies of PUT /security/rules/{rule_id}
UpdateBodies ==
    {[asset_id |-> "asset_456", schema |-> "sch1"],
     [rule_type |-> "HIPAA"],
     [rule_id |-> "rule_999"]}

InitApi ==
    /\ fnArg = EmptyDict
    /\ fnRet = NoCall
    /\ now = 0
    /\ program = "api" /\ webhook_secret = "" /\ security_transformer = "real"
    /\ SysInit

CreateSecurityRule ==
    \E rule \in CreateBodies, env \in {"none", "put_item"} :
        \E r \in {create_security_rule(env, rule, now, table)} :
            /\ program = "api"
            /\ table' = r.table
            /\ last' = Finished("create_security_rule", rule, NoMock, env, r)
            /\ created' = IF env = "none" /\ r.calls # <<>>
                          THEN created \cup {rule} ELSE created
            /\ UNCHANGED <<fnArg, fnRet, now, config, consumer, updates, bus,
                           outQueue, inQueue>>

UpdateSecurityRule ==
    \E rule_id \in DOMAIN table \cup {"nonexistent"}, rule \in UpdateBodies,
       env \in {"none", "update_item"} :
        \E r \in {update_security_rule(env, rule_id, rule, now, table)} :
            /\ program = "api"
            /\ table' = r.table
            /\ last' = Finished("update_security_rule",
                                [rule_id |-> rule_id, rule |-> rule], NoMock, env, r)
            /\ UNCHANGED <<fnArg, fnRet, now, config, consumer, updates, created,
                           bus, outQueue, inQueue>>

NextApi == Tick \/ CreateSecurityRule \/ UpdateSecurityRule

SpecApi == InitApi /\ [][NextApi]_vars

----------------------------------------------------------------------------
(* Concurrent requests to PUT /security/rules/{rule_id}: the route reads the
   stored rule (line 134) and writes the merged one (line 144) in two calls
   of the storage, and requests served by different workers interleave
   between the two *)

MaxUpdates == 2

\* the bodies of the concurrent requests: two that change different fields,
\* and one the transformer refuses
ConcurrentBodies ==
    {[conditions |-> PyList(<<PyMap(CondFull(2))>>)],
     [asset_id |-> "asset_456", schema |-> "sch1"],
     [rule_type |-> "HIPAA"]}

\* the n-th request, which has got its answer from get_metadata
UpdateRequest(n, rule_id, rule, existing_rule) ==
    [n |-> n, rule_id |-> rule_id, rule |-> rule, existing_rule |-> existing_rule,
     phase |-> "read"]

\* the request reads the stored rule again when it writes
write_update_reread(env, u, t, tbl) ==
    merge_and_update(env, u.rule_id, u.rule, get_metadata(tbl, u.rule_id), t, tbl)

\* lines 135-155 for a request that read existing_rule at line 134
write_update(env, u, t, tbl) ==
    merge_and_update(env, u.rule_id, u.rule, u.existing_rule, t, tbl)

\* a table with one rule, created at the clock's start
InitUpdate ==
    /\ fnArg = EmptyDict
    /\ fnRet = NoCall
    /\ now = 0
    /\ program = "api" /\ webhook_secret = "" /\ security_transformer = "real"
    /\ bus = {} /\ outQueue = {} /\ inQueue = {}
    /\ pc = "idle" /\ messages = <<>> /\ handled = <<>>
    /\ updates = {}
    /\ \E rule \in CreateBodies :
          /\ create_security_rule("none", rule, 0, EmptyDict).table # EmptyDict
          /\ table = create_security_rule("none", rule, 0, EmptyDict).table
          /\ last = Finished("create_security_rule", rule, NoMock, "none",
                             create_security_rule("none", rule, 0, EmptyDict))
          /\ created = {rule}

\* line 134: storage.get_metadata(rule_id)
UpdateRead ==
    \E rule_id \in DOMAIN table \cup {"nonexistent"}, rule \in ConcurrentBodies :
        /\ program = "api"
        /\ Cardinality(updates) < MaxUpdates
        /\ updates' = updates \cup
                          {UpdateRequest(Cardinality(updates) + 1, rule_id, rule,
                                         get_metadata(table, rule_id))}
        /\ UNCHANGED <<fnArg, fnRet, now, config, consumer, created, table, bus,
                       outQueue, inQueue, last>>

\* lines 135-159 of a request that has read
UpdateWrite ==
    \E u \in updates, env \in {"none", "update_item"} :
        \E r \in {write_update(env, u, now, table)} :
            /\ u.phase = "read"
            /\ table' = r.table
            /\ last' = Finished("update_security_rule", u, NoMock, env, r)
            /\ updates' = (updates \ {u}) \cup
                              {[u EXCEPT !.phase = IF env = "none" /\ r.calls # <<>>
                                                  THEN "stored" ELSE "failed"]}
            /\ UNCHANGED <<fnArg, fnRet, now, config, consumer, created, bus,
                           outQueue, inQueue>>

NextUpdate == Tick \/ UpdateRead \/ UpdateWrite

SpecUpdate == InitUpdate /\ [][NextUpdate]_vars

\* the create route alone, as many requests as arrive within each second
NextCreate == Tick \/ CreateSecurityRule

SpecCreate == InitApi /\ [][NextCreate]_vars

----------------------------------------------------------------------------
(* Direct calls of the transformer's three entry points *)

InitFn ==
    /\ fnArg \in RuleInputs
    /\ fnRet = NoCall
    /\ now \in 0..MaxClock
    /\ program = "outbound" /\ webhook_secret = "" /\ security_transformer = "real"
    /\ SysInit

CallTransform ==
    /\ fnRet' = [op |-> "transform_security_rule", target |-> "",
                 out |-> transform_security_rule(fnArg, now)]
    /\ UNCHANGED <<fnArg, now, sysVars, created>>

CallValidate ==
    /\ fnRet' = [op |-> "validate_rule", target |-> "", out |-> validate_rule(fnArg)]
    /\ UNCHANGED <<fnArg, now, sysVars, created>>

CallFormat ==
    \E target_system \in Targets :
        /\ fnRet' = [op |-> "format_for_downstream", target |-> target_system,
                     out |-> format_for_downstream(fnArg, target_system)]
        /\ UNCHANGED <<fnArg, now, sysVars, created>>

NextFn == CallTransform \/ CallValidate \/ CallFormat

SpecFn == InitFn /\ [][NextFn]_vars

----------------------------------------------------------------------------
(* Properties of the transformer, checked under SpecFn *)

\* C1: transform_security_rule fails with a validation error (ValueError) and
\* returns no rule whenever rule_type is absent from the raw rule or is not
\* one of PII, GDPR, CUSTOM, whatever the other keys of the input are.
C1_TransformRejectsBadRuleType ==
    (/\ fnRet.op = "transform_security_rule"
     /\ IF "rule_type" \in DOMAIN fnArg
        THEN fnArg["rule_type"] \notin {"PII", "GDPR", "CUSTOM"}
        ELSE TRUE)
    => (~fnRet.out.ok /\ fnRet.out.exc = "ValueError")

\* a rule without rule_type whose conditions are null was transformed
C1_Witness ==
    /\ fnRet.op = "transform_security_rule"
    /\ "rule_type" \notin DOMAIN fnArg
    /\ "conditions" \in DOMAIN fnArg
    /\ fnArg["conditions"].kind = "null"
    /\ fnRet.out.exc = "ValueError"

\* C6: validate_rule never raises: every call returns true or false.
C6_ValidateNeverRaises ==
    fnRet.op = "validate_rule" => fnRet.out.ok

\* C7: validate_rule returns true exactly when the four checks hold: the four
\* keys are present, rule_type is PII, GDPR or CUSTOM, every condition has
\* field, operator and value, and every action has type.  It returns false
\* for a rule missing actions.
C7_ValidateTrueIffFourChecks ==
    LET HasAll(xs, keys) ==
            /\ xs.kind = "list"
            /\ \A i \in 1..Len(xs.items) :
                  xs.items[i].kind = "map" /\ keys \subseteq DOMAIN xs.items[i].m
        FourChecks ==
            /\ {"rule_type", "asset_id", "conditions", "actions"} \subseteq DOMAIN fnArg
            /\ fnArg["rule_type"] \in {"PII", "GDPR", "CUSTOM"}
            /\ HasAll(fnArg["conditions"], {"field", "operator", "value"})
            /\ HasAll(fnArg["actions"], {"type"})
    IN  fnRet.op = "validate_rule" =>
            /\ (fnRet.out.ok /\ fnRet.out.val) <=> FourChecks
            /\ "actions" \notin DOMAIN fnArg => (fnRet.out.ok /\ ~fnRet.out.val)

\* the minimal rule {rule_type: PII, asset_id: a1, conditions: [], actions: []}
\* was validated and found valid
C7_Witness ==
    /\ fnRet.op = "validate_rule"
    /\ fnArg = [rule_type |-> "PII", asset_id |-> "a1",
                conditions |-> PyList(<<>>), actions |-> PyList(<<>>)]
    /\ fnRet.out.ok /\ fnRet.out.val

\* C8: format_for_downstream fails with the unsupported-target error for every
\* target other than snowflake and databricks, and returns no policy.
C8_FormatRejectsUnknownTarget ==
    (fnRet.op = "format_for_downstream" /\ fnRet.target \notin {"snowflake", "databricks"})
    => /\ ~fnRet.out.ok
       /\ fnRet.out.exc = "ValueError"
       /\ fnRet.out.msg = "Unsupported target system: " \o fnRet.target

\* a rule that formats for snowflake was formatted for "bogus"
C8_Witness ==
    /\ fnRet.op = "format_for_downstream"
    /\ fnRet.target = "bogus"
    /\ format_for_downstream(fnArg, "snowflake").ok
    /\ ~fnRet.out.ok

\* a rule format_for_downstream is specified for: rule_id present, conditions
\* a list of complete conditions, actions a list of (type, parameters) mappings
FormatsCleanly(rule) ==
    /\ {"rule_id", "conditions", "actions"} \subseteq DOMAIN rule
    /\ rule["conditions"].kind = "list"
    /\ \A i \in 1..Len(rule["conditions"].items) :
          /\ rule["conditions"].items[i].kind = "map"
          /\ {"field", "operator", "value"} \subseteq DOMAIN rule["conditions"].items[i].m
    /\ rule["actions"].kind = "list"
    /\ \A i \in 1..Len(rule["actions"].items) :
          /\ rule["actions"].items[i].kind = "map"
          /\ {"type", "parameters"} \subseteq DOMAIN rule["actions"].items[i].m

\* the conditions and actions of policy are those of rule, as column /
\* operator / value triples and type / parameters pairs, in the rule's order
ProjectsItems(policy, rule) ==
    /\ Len(policy.conditions) = Len(rule["conditions"].items)
    /\ \A i \in 1..Len(policy.conditions) :
          policy.conditions[i] =
              [column |-> rule["conditions"].items[i].m["field"],
               operator |-> rule["conditions"].items[i].m["operator"],
               value |-> rule["conditions"].items[i].m["value"]]
    /\ Len(policy.actions) = Len(rule["actions"].items)
    /\ \A i \in 1..Len(policy.actions) :
          policy.actions[i] =
              [type |-> rule["actions"].items[i].m["type"],
               parameters |-> rule["actions"].items[i].m["parameters"]]

\* C9: for target snowflake every rule formats to a policy of type
\* snowflake_policy named atlan_<rule_id>, with the rule's database and schema
\* (PUBLIC when absent), the rule's table, and the rule's conditions and
\* actions projected in order.
C9_SnowflakePolicy ==
    (fnRet.op = "format_for_downstream" /\ fnRet.target = "snowflake") =>
        /\ FormatsCleanly(fnArg) => fnRet.out.ok
        /\ fnRet.out.ok =>
            /\ DOMAIN fnRet.out.val = {"type", "name", "database", "schema", "table",
                                       "conditions", "actions"}
            /\ fnRet.out.val.type = "snowflake_policy"
            /\ fnRet.out.val.name = "atlan_" \o fnArg["rule_id"]
            /\ fnRet.out.val.database =
                  (IF "database" \in DOMAIN fnArg THEN fnArg["database"] ELSE "PUBLIC")
            /\ fnRet.out.val.schema =
                  (IF "schema" \in DOMAIN fnArg THEN fnArg["schema"] ELSE "PUBLIC")
            /\ fnRet.out.val.table =
                  (IF "table" \in DOMAIN fnArg THEN fnArg["table"] ELSE None)
            /\ ProjectsItems(fnRet.out.val, fnArg)

\* a rule with a database, no schema and two different conditions was
\* formatted for snowflake
C9_Witness ==
    /\ fnRet.op = "format_for_downstream" /\ fnRet.target = "snowflake"
    /\ fnRet.out.ok
    /\ "database" \in DOMAIN fnArg /\ "schema" \notin DOMAIN fnArg
    /\ Len(fnRet.out.val.conditions) = 2
    /\ fnRet.out.val.conditions[1] # fnRet.out.val.conditions[2]

\* C10: for target databricks every rule formats to a policy of type
\* databricks_policy of the same shape: named atlan_<rule_id>, catalog the
\* rule's or hive_metastore, schema the rule's or default, the rule's table,
\* conditions and actions projected in order.
C10_DatabricksPolicy ==
    (fnRet.op = "format_for_downstream" /\ fnRet.target = "databricks") =>
        /\ FormatsCleanly(fnArg) => fnRet.out.ok
        /\ fnRet.out.ok =>
            /\ DOMAIN fnRet.out.val = {"type", "name", "catalog", "schema", "table",
                                       "conditions", "actions"}
            /\ fnRet.out.val.type = "databricks_policy"
            /\ fnRet.out.val.name = "atlan_" \o fnArg["rule_id"]
            /\ fnRet.out.val.catalog =
                  (IF "catalog" \in DOMAIN fnArg THEN fnArg["catalog"] ELSE "hive_metastore")
            /\ fnRet.out.val.schema =
                  (IF "schema" \in DOMAIN fnArg THEN fnArg["schema"] ELSE "default")
            /\ fnRet.out.val.table =
                  (IF "table" \in DOMAIN fnArg THEN fnArg["table"] ELSE None)
            /\ ProjectsItems(fnRet.out.val, fnArg)

\* a rule with a catalog and no schema, one condition and one action, was
\* formatted for databricks
C10_Witness ==
    /\ fnRet.op = "format_for_downstream" /\ fnRet.target = "databricks"
    /\ fnRet.out.ok
    /\ "catalog" \in DOMAIN fnArg /\ "schema" \notin DOMAIN fnArg
    /\ Len(fnRet.out.val.conditions) = 1 /\ Len(fnRet.out.val.actions) = 1

\* text contains word
Contains(text, word) ==
    \E i \in 1..(Len(text) - Len(word) + 1) : SubSeq(text, i, i + Len(word) - 1) = word

\* xs is missing from the rule, or is a list of mappings
ListOfMappings(rule, key) ==
    key \in DOMAIN rule =>
        /\ rule[key].kind = "list"
        /\ \A i \in 1..Len(rule[key].items) : rule[key].items[i].kind = "map"

\* the elements of rule[key] (none when the key is missing)
Items(rule, key) == IF key \in DOMAIN rule THEN rule[key].items ELSE <<>>

\* the i-th raw condition lacks one of field, operator, value
LacksConditionKey(rule, i) ==
    ~({"field", "operator", "value"} \subseteq DOMAIN Items(rule, "conditions")[i].m)

\* C11: when a raw condition lacks one of field, operator, value, transform
\* returns no rule and raises a validation error whose message names the
\* keys a deficient condition is missing.
C11_MissingConditionKeysNamed ==
    (/\ fnRet.op = "transform_security_rule"
     /\ "rule_type" \in DOMAIN fnArg
     /\ fnArg["rule_type"] \in {"PII", "GDPR", "CUSTOM"}
     /\ ListOfMappings(fnArg, "conditions")
     /\ \E i \in 1..Len(Items(fnArg, "conditions")) : LacksConditionKey(fnArg, i))
    => (/\ ~fnRet.out.ok
        /\ fnRet.out.exc = "ValueError"
        /\ \E i \in 1..Len(Items(fnArg, "conditions")) :
              /\ LacksConditionKey(fnArg, i)
              /\ \A k \in {"field", "operator", "value"}
                          \ DOMAIN Items(fnArg, "conditions")[i].m :
                    Contains(fnRet.out.msg, k))

\* C12: every condition of a rule transform returns has field, operator and
\* value that are not null.
C12_TransformedConditionsNonNull ==
    (fnRet.op = "transform_security_rule" /\ fnRet.out.ok) =>
        \A i \in 1..Len(fnRet.out.val["conditions"].items) :
            \A k \in {"field", "operator", "value"} :
                fnRet.out.val["conditions"].items[i].m[k] # None

\* the rule's rule_type is supported and its conditions transform
ConditionsTransform(rule) ==
    /\ "rule_type" \in DOMAIN rule
    /\ rule["rule_type"] \in {"PII", "GDPR", "CUSTOM"}
    /\ ListOfMappings(rule, "conditions")
    /\ \A i \in 1..Len(Items(rule, "conditions")) : ~LacksConditionKey(rule, i)

\* C13: when a raw action lacks type, transform raises a validation error;
\* otherwise the output actions are the input actions in order, each with the
\* input type, the input parameters or the empty mapping, and the input
\* priority or "normal" (kept under the action's metadata).
C13_ActionsTransformed ==
    (/\ fnRet.op = "transform_security_rule"
     /\ ConditionsTransform(fnArg)
     /\ ListOfMappings(fnArg, "actions"))
    => IF \E i \in 1..Len(Items(fnArg, "actions")) :
              "type" \notin DOMAIN Items(fnArg, "actions")[i].m
       THEN ~fnRet.out.ok /\ fnRet.out.exc = "ValueError"
       ELSE /\ fnRet.out.ok
            /\ Len(fnRet.out.val["actions"].items) = Len(Items(fnArg, "actions"))
            /\ \A i \in 1..Len(Items(fnArg, "actions")) :
                  /\ fnRet.out.val["actions"].items[i].m["type"] =
                        Items(fnArg, "actions")[i].m["type"]
                  /\ fnRet.out.val["actions"].items[i].m["parameters"] =
                        (IF "parameters" \in DOMAIN Items(fnArg, "actions")[i].m
                         THEN Items(fnArg, "actions")[i].m["parameters"] ELSE "{}")
                  /\ fnRet.out.val["actions"].items[i].m["metadata"].priority =
                        (IF "priority" \in DOMAIN Items(fnArg, "actions")[i].m
                         THEN Items(fnArg, "actions")[i].m["priority"] ELSE "normal")

\* a rule with two different actions was transformed, the first given without
\* parameters and without priority
C13_Witness ==
    /\ fnRet.op = "transform_security_rule"
    /\ fnRet.out.ok
    /\ Len(fnRet.out.val["actions"].items) = 2
    /\ DOMAIN fnArg["actions"].items[1].m = {"type"}
    /\ fnRet.out.val["actions"].items[1].m["metadata"].priority = "normal"
    /\ fnRet.out.val["actions"].items[1] # fnRet.out.val["actions"].items[2]

\* C14: the conditions and actions of a rule transform returns have the data
\* model's flat shape: a condition is {field, operator, value, description,
\* severity}, an action {type, parameters, description, priority}.
C14_FlatConditionsAndActions ==
    (fnRet.op = "transform_security_rule" /\ fnRet.out.ok) =>
        /\ \A i \in 1..Len(fnRet.out.val["conditions"].items) :
              DOMAIN fnRet.out.val["conditions"].items[i].m =
                  {"field", "operator", "value", "description", "severity"}
        /\ \A i \in 1..Len(fnRet.out.val["actions"].items) :
              DOMAIN fnRet.out.val["actions"].items[i].m =
                  {"type", "parameters", "description", "priority"}

\* C15: the rule transform returns has the raw rule's rule_id when the raw
\* rule carries one, and otherwise "rule_" followed by the current time to
\* the second.
C15_RuleIdKeptOrGenerated ==
    (fnRet.op = "transform_security_rule" /\ fnRet.out.ok) =>
        fnRet.out.val["rule_id"] =
            (IF "rule_id" \in DOMAIN fnArg THEN fnArg["rule_id"]
             ELSE "rule_" \o ToString(now))

\* a rule without rule_id was transformed after the clock's first second
C15_Witness ==
    /\ fnRet.op = "transform_security_rule"
    /\ fnRet.out.ok
    /\ "rule_id" \notin DOMAIN fnArg
    /\ now > 0
    /\ fnRet.out.val["rule_id"] = "rule_" \o ToString(now)

\* C26: for every raw input transform_security_rule accepts, validate_rule
\* applied to the returned rule returns true; so after a transform that
\* returned, the invalid-rule branch of process_security_event and of the
\* create and update handlers is not taken.
C26_TransformedRuleIsValid ==
    (fnRet.op = "transform_security_rule" /\ fnRet.out.ok) =>
        /\ validate_rule(fnRet.out.val).ok
        /\ validate_rule(fnRet.out.val).val = TRUE

\* transform accepted a raw rule that has a rule_type and nothing else
C26_Witness ==
    /\ fnRet.op = "transform_security_rule"
    /\ fnRet.out.ok
    /\ DOMAIN fnArg = {"rule_type"}
    /\ fnRet.out.val["asset_id"] = None
    /\ validate_rule(fnRet.out.val).val = TRUE

\* C29: location fields of the raw rule reach the downstream policies: when
\* the raw rule carries database, schema, table or catalog, the snowflake and
\* databricks policies formatted from the transformed rule carry those
\* values, not the defaults and a null table.
C29_LocationReachesPolicies ==
    (/\ fnRet.op = "transform_security_rule"
     /\ fnRet.out.ok
     /\ format_for_downstream(fnRet.out.val, "snowflake").ok
     /\ format_for_downstream(fnRet.out.val, "databricks").ok)
    => /\ \A k \in DOMAIN fnArg \cap {"database", "schema", "table"} :
             format_for_downstream(fnRet.out.val, "snowflake").val[k] = fnArg[k]
       /\ \A k \in DOMAIN fnArg \cap {"catalog", "schema", "table"} :
             format_for_downstream(fnRet.out.val, "databricks").val[k] = fnArg[k]

----------------------------------------------------------------------------
(* Properties of the processors, checked under Spec *)

CallsOf(fn) == {i \in 1..Len(last.calls) : last.calls[i].fn = fn}

\* validate_rule returns false for the rule the transformer makes of event
ValidateReturnsFalse(tf, mock, event, t) ==
    /\ Transform(tf, event, t).ok
    /\ Validate(tf, mock, Transform(tf, event, t).val).ok
    /\ ~Validate(tf, mock, Transform(tf, event, t).val).val

\* C2: when validate_rule returns false for the transformed rule,
\* process_security_event raises the invalid-rule error ("Invalid security
\* rule"), calls neither store_metadata nor put_events, returns no downstream
\* rules, and leaves the table and the bus as they were before the call.
C2_InvalidRuleStopsPipeline ==
    [][(/\ last'.op = "process_security_event"
        /\ ValidateReturnsFalse(security_transformer, last'.mock, last'.arg, now))
       => (/\ ~last'.out.ok
           /\ last'.out.exc = "ValueError"
           /\ last'.out.msg = "Invalid security rule"
           /\ last'.calls = <<>>
           /\ table' = table
           /\ bus' = bus)]_vars

\* with records in the table and events on the bus, an event was processed
\* whose transformed rule validate_rule found invalid
C2_Witness ==
    /\ last.op = "process_security_event"
    /\ ValidateReturnsFalse(security_transformer, last.mock, last.arg, now)
    /\ last.out.exc = "ValueError"
    /\ table # EmptyDict
    /\ bus # {}

\* the targets format_for_downstream formats rule for without raising
FormattedTargets(tf, mock, rule) ==
    {target_system \in {"snowflake", "databricks"} :
        Format(tf, mock, rule, target_system).ok}

\* C3: _format_for_downstream_systems never raises, whichever targets fail:
\* the map it returns has an entry for exactly the targets whose formatting
\* succeeded, each holding what format_for_downstream returned, and the empty
\* map when both failed.  The downstream_rules of a processed event are that
\* map for the stored rule.
C3_FanOutIsolatesFailures ==
    /\ last.op = "_format_for_downstream_systems" =>
          /\ last.out.ok
          /\ DOMAIN last.out.val =
                FormattedTargets(security_transformer, last.mock, last.arg)
          /\ \A target_system \in DOMAIN last.out.val :
                last.out.val[target_system] =
                    Format(security_transformer, last.mock, last.arg, target_system).val
    /\ (last.op = "process_security_event" /\ last.out.ok) =>
          DOMAIN last.out.val.downstream_rules =
              FormattedTargets(security_transformer, last.mock,
                               table[last.out.val.event_id].payload)

\* formatting for snowflake failed and the map holds the databricks policy only
C3_Witness ==
    /\ last.op = "_format_for_downstream_systems"
    /\ ~Format(security_transformer, last.mock, last.arg, "snowflake").ok
    /\ last.out.ok
    /\ DOMAIN last.out.val = {"databricks"}

\* both targets failed and the empty map was returned
C3_AllTargetsFailed ==
    /\ last.op = "_format_for_downstream_systems"
    /\ FormattedTargets(security_transformer, last.mock, last.arg) = {}
    /\ last.out.ok
    /\ last.out.val = EmptyDict

\* C4: in process_sqs_message of either processor, delete_message is called
\* only when the processing has succeeded, then exactly once, as the last
\* call, with the message's receipt handle; when anything before it raised,
\* the exception reaches the caller, delete_message was not called and the
\* message is still in the queue.
C4_DeleteOnlyAfterSuccess ==
    last.op \in {"process_sqs_message", "inbound.process_sqs_message"} =>
        /\ last.out.ok =>
              /\ Cardinality(CallsOf("delete_message")) = 1
              /\ last.calls[Len(last.calls)] =
                    Called("delete_message", last.arg.ReceiptHandle)
              /\ CallsOf("store_metadata") = {1}
              /\ CallsOf("put_events") = {2}
        /\ CallsOf("delete_message") # {} =>
              /\ Len(last.calls) = 3
              /\ last.out.ok \/ last.env = "delete_message"
        /\ (~last.out.ok /\ last.env # "delete_message") =>
              /\ CallsOf("delete_message") = {}
              /\ last.arg \in (IF last.op = "process_sqs_message"
                               THEN outQueue ELSE inQueue)

\* the outbound consumer stored a message's rule, the publish failed, and the
\* message is still in the queue
C4_Witness ==
    /\ last.op = "process_sqs_message"
    /\ ~last.out.ok
    /\ last.env = "put_events"
    /\ CallsOf("put_events") # {}
    /\ last.arg \in outQueue

\* the record store_metadata writes for event when called at time t
SecurityRuleItem(tf, event, t) ==
    StoredItem([event_id |-> Transform(tf, event, t).val["rule_id"],
                event_type |-> "security_rule",
                timestamp |-> Transform(tf, event, t).val["metadata"].created_at,
                source |-> "atlan",
                payload |-> Transform(tf, event, t).val], t)

\* the record store_metadata writes for a webhook payload when called at time t
WebhookItem(payload, t) ==
    StoredItem([event_id |-> payload["id"],
                event_type |-> payload["type"],
                timestamp |-> payload["timestamp"],
                source |-> "monte_carlo",
                payload |-> enrich_incident_data("none", payload["data"]).val], t)

\* C5: when put_events fails inside process_security_event or process_webhook
\* the call raises, and the record the preceding store_metadata wrote is in
\* the table, the bus being as it was.
C5_PublishFailureKeepsStore ==
    /\ []((/\ last.op \in {"process_security_event", "process_webhook"}
            /\ last.env = "put_events"
            /\ CallsOf("put_events") # {})
           => (/\ ~last.out.ok
           /\ last.out.exc = "ClientError"
           /\ last.calls[1].key \in DOMAIN table
           /\ \E t \in 0..now :
                 table[last.calls[1].key] =
                    IF last.op = "process_security_event"
                    THEN SecurityRuleItem(security_transformer, last.arg, t)
                    ELSE WebhookItem(last.arg.payload.doc, t)))
    /\ [][(/\ last'.op \in {"process_security_event", "process_webhook"}
           /\ last'.env = "put_events")
          => bus' = bus]_vars

\* put_events failed for an event whose record was written to an empty table
C5_Witness ==
    /\ last.op = "process_security_event"
    /\ last.env = "put_events"
    /\ ~last.out.ok
    /\ last.out.msg = "put_events"
    /\ DOMAIN table = {last.calls[1].key}
    /\ bus = {}

\* a raw rule that transforms and validates: a supported rule_type and
\* complete conditions and actions
ValidRaw(rule) ==
    /\ ConditionsTransform(rule)
    /\ ListOfMappings(rule, "actions")
    /\ \A i \in 1..Len(Items(rule, "actions")) :
          "type" \in DOMAIN Items(rule, "actions")[i].m

\* the column / operator / value triples of a raw rule's conditions
ProjectedConditions(rule) ==
    [i \in 1..Len(Items(rule, "conditions")) |->
        [column |-> Items(rule, "conditions")[i].m["field"],
         operator |-> Items(rule, "conditions")[i].m["operator"],
         value |-> Items(rule, "conditions")[i].m["value"]]]

----------------------------------------------------------------------------
(* Properties of the API routes, checked under SpecApi *)

\* the step is a call of the route op (every step but Tick is a call)
IsCall(op) == last'.op = op /\ now' = now

\* C16: across updates of a stored rule, the rule's metadata.created_at keeps
\* the value it got at creation, and metadata.updated_at becomes the current
\* time whenever the rule is written again.
C16_CreatedAtSetOnce ==
    [][(/\ IsCall("update_security_rule")
        /\ last'.arg.rule_id \in DOMAIN table)
       => /\ table'[last'.arg.rule_id].payload["metadata"].created_at =
                table[last'.arg.rule_id].payload["metadata"].created_at
          /\ table' # table =>
                table'[last'.arg.rule_id].payload["metadata"].updated_at =
                    IsoFormat(now)]_vars

\* C17: an update of a stored rule transforms the stored payload merged with
\* the incoming body (incoming keys winning); when that transforms and
\* validates, the stored payload becomes the transformed rule and the request
\* answers with the rule formatted for the downstream systems.
C17_UpdateMergesAndReruns ==
    [][(/\ IsCall("update_security_rule")
        /\ last'.env = "none"
        /\ last'.arg.rule_id \in DOMAIN table
        /\ transform_security_rule(
               [k \in DOMAIN last'.arg.rule \cup DOMAIN table[last'.arg.rule_id].payload |->
                   IF k \in DOMAIN last'.arg.rule THEN last'.arg.rule[k]
                   ELSE table[last'.arg.rule_id].payload[k]], now).ok)
       => /\ table'[last'.arg.rule_id].payload =
                transform_security_rule(
                    [k \in DOMAIN last'.arg.rule
                           \cup DOMAIN table[last'.arg.rule_id].payload |->
                        IF k \in DOMAIN last'.arg.rule THEN last'.arg.rule[k]
                        ELSE table[last'.arg.rule_id].payload[k]], now).val
          /\ last'.out.status_code = 200
          /\ "downstream_rules" \in DOMAIN last'.out.body]_vars

\* C19: a POST whose rule transforms and validates stores exactly one record,
\* under the rule's rule_id, and answers with success: status "created", the
\* rule_id and downstream_rules.
C19_CreateStoresAndSucceeds ==
    [][(/\ IsCall("create_security_rule")
        /\ last'.env = "none"
        /\ ValidRaw(last'.arg))
       => /\ \E id \in DOMAIN table' :
                /\ DOMAIN table' = DOMAIN table \cup {id}
                /\ table'[id].payload["rule_id"] = id
                /\ \A other \in DOMAIN table \ {id} : table'[other] = table[other]
                /\ last'.out.status_code \in {200, 201}
                /\ DOMAIN last'.out.body = {"rule_id", "status", "downstream_rules"}
                /\ last'.out.body.rule_id = id
                /\ last'.out.body.status = "created"]_vars

\* C20: a PUT for an identifier with no stored record answers 404 with detail
\* "Rule not found" and leaves the table as it was.
C20_UpdateUnknownIs404 ==
    [][(/\ IsCall("update_security_rule")
        /\ last'.arg.rule_id \notin DOMAIN table)
       => /\ last'.out.status_code = 404
          /\ last'.out.detail = "Rule not found"
          /\ table' = table
          /\ last'.calls = <<>>]_vars

----------------------------------------------------------------------------
(* Properties of the inbound processor's signature check, checked under Spec *)

\* C21: process_webhook with a signature that fails verification raises
\* ValueError "Invalid webhook signature" before any other step: whatever the
\* payload holds (also bytes that are not JSON, or an event with a required
\* field missing) and whatever the services would answer, no service is
\* called and the table and the bus are as before the call.
C21_InvalidSignatureStopsWebhook ==
    [][(/\ last'.op = "process_webhook"
        /\ ~verify_webhook_signature(webhook_secret, last'.arg.payload,
                                     last'.arg.signature))
       => (/\ ~last'.out.ok
           /\ last'.out.exc = "ValueError"
           /\ last'.out.msg = "Invalid webhook signature"
           /\ last'.calls = <<>>
           /\ table' = table
           /\ bus' = bus)]_vars

\* with a secret configured and events already stored and published, a webhook
\* whose bytes are not JSON and whose signature does not verify was refused
C21_Witness ==
    /\ last.op = "process_webhook"
    /\ webhook_secret # ""
    /\ ~verify_webhook_signature(webhook_secret, last.arg.payload, last.arg.signature)
    /\ ~last.arg.payload.json
    /\ last.out.msg = "Invalid webhook signature"
    /\ table # EmptyDict
    /\ bus # {}

----------------------------------------------------------------------------
(* Properties of the consumer loop, checked under SpecLoop *)

\* C22: start_processing returns to its caller once the received batch of
\* messages has been processed, having called delete_message exactly once
\* for a batch of one successfully processed message.
C22_StartProcessingReturns ==
    [][(/\ pc = "process"
        /\ Len(handled') = Len(messages))
       => (/\ pc' = "returned"
           /\ handled' = <<TRUE>> =>
                 Cardinality({n \in 1..Len(last'.calls) :
                                 last'.calls[n].fn = "delete_message"}) = 1)]_vars

\* C25: in the consumer loop of either processor a message whose processing
\* fails stops neither the loop nor the rest of its batch.  The messages of
\* a received batch are processed one by one in received order, whatever
\* the outcome of the ones before; the loop is back at receive_message only
\* when the whole batch has been gone through; a message whose processing
\* succeeded is deleted from the queue, with one delete_message call, and a
\* message whose processing failed is still on the queue.
C25_FailureDoesNotStopBatch ==
    /\ [](/\ pc = "process" => Len(handled) < Len(messages)
          /\ pc = "receive" => Len(handled) = Len(messages))
    /\ [][(pc = "process" /\ handled' # handled)
          => (/\ messages' = messages
              /\ Len(handled') = Len(handled) + 1
              /\ last'.arg = messages[Len(handled')]
              /\ handled'[Len(handled')] = last'.out.ok
              /\ pc' = IF Len(handled') < Len(messages) THEN "process" ELSE "receive"
              /\ last'.out.ok =>
                    /\ last'.arg \notin (IF program = "outbound"
                                         THEN outQueue' ELSE inQueue')
                    /\ Cardinality({n \in 1..Len(last'.calls) :
                                       last'.calls[n].fn = "delete_message"}) = 1
              /\ ~last'.out.ok =>
                    last'.arg \in (IF program = "outbound"
                                    THEN outQueue' ELSE inQueue'))]_vars

\* a batch of two was gone through: the first message failed and is still on
\* the queue, the second succeeded and is deleted, and the loop is back at
\* receive_message
C25_Witness ==
    /\ pc = "receive"
    /\ Len(messages) = 2
    /\ handled = <<FALSE, TRUE>>
    /\ messages[1] \in Queue
    /\ messages[2] \notin Queue
    /\ last.arg = messages[2]

\* C27: redelivery of an outbound message never adds a second record to the
\* table.  When the consumer processes a message whose previous processing
\* stored the rule and then failed at the publish, so that the message
\* stayed on the queue, the table has the same records after the second
\* processing as before it, also when the body carries no rule_id.
C27_RedeliveryKeepsOneRecord ==
    [][(/\ last.op = "process_sqs_message"
        /\ last.env = "put_events"
        /\ ~last.out.ok
        /\ Len(last.calls) >= 1
        /\ last.calls[1].fn = "store_metadata"
        /\ pc = "process"
        /\ handled' # handled
        /\ last'.op = "process_sqs_message"
        /\ last'.arg = last.arg)
       => DOMAIN table' = DOMAIN table]_vars

----------------------------------------------------------------------------
(* Properties of the create route, checked under SpecCreate *)

\* the bodies without rule_id a rule was stored for during this clock second
CreatedWithoutId == {rule \in created : "rule_id" \notin DOMAIN rule}

\* C23: rule-id generation has a collision window.  The creates of one clock
\* second whose bodies carry no rule_id all obtain the same generated
\* rule_id, and the table holds one record for all of them; a later store
\* under that identifier replaces the record and the table gains no record.
C23_SameSecondCreatesCollide ==
    /\ [](CreatedWithoutId # {} =>
            /\ \A rule \in CreatedWithoutId :
                  transform_security_rule(rule, now).val["rule_id"] =
                      _generate_rule_id(now)
            /\ Cardinality({id \in DOMAIN table :
                               \E rule \in CreatedWithoutId :
                                  id = transform_security_rule(rule, now).val["rule_id"]})
                  = 1)
    /\ [][(/\ IsCall("create_security_rule")
           /\ "rule_id" \notin DOMAIN last'.arg
           /\ last'.env = "none"
           /\ last'.calls # <<>>)
          => (/\ last'.calls[1].key = _generate_rule_id(now)
              /\ table'[_generate_rule_id(now)].payload =
                    transform_security_rule(last'.arg, now).val
              /\ _generate_rule_id(now) \in DOMAIN table =>
                    DOMAIN table' = DOMAIN table)]_vars

\* two different rules were created without rule_id within one second, and
\* the table holds a single record, that of the later one
C23_Witness ==
    /\ Cardinality(CreatedWithoutId) = 2
    /\ Cardinality(DOMAIN table) = 1
    /\ last.op = "create_security_rule"
    /\ "rule_id" \notin DOMAIN last.arg
    /\ table[_generate_rule_id(now)].payload["asset_id"] = last.arg["asset_id"]
    /\ \E rule \in CreatedWithoutId : rule["asset_id"] # last.arg["asset_id"]

----------------------------------------------------------------------------
(* Properties of concurrent updates, checked under SpecUpdate *)

\* C24: the update path is not atomic across its read-modify-write.  When two
\* updates of the same rule that change different fields have both read the
\* same stored record and both have written, the stored payload is the one
\* the later writer made from what it read: it carries the later writer's
\* change, and the fields the earlier writer changed are back at the values
\* both requests read (a lost update).
C24_LostUpdate ==
    \A u, v \in updates :
        (/\ u.phase = "stored" /\ v.phase = "stored"
         /\ u.rule_id = v.rule_id
         /\ u.existing_rule = v.existing_rule
         /\ DOMAIN u.rule \cap DOMAIN v.rule = {}
         /\ last.op = "update_security_rule"
         /\ last.arg = [v EXCEPT !.phase = "read"])
        => /\ \E t \in 0..now :
                 table[v.rule_id].payload =
                     transform_security_rule(
                         updated_rule(v.existing_rule.m.payload, v.rule), t).val
           /\ \A k \in DOMAIN u.rule \cap {"rule_type", "asset_id", "asset_type"} :
                 table[v.rule_id].payload[k] = v.existing_rule.m.payload[k]
           /\ \A k \in DOMAIN v.rule \cap {"rule_type", "asset_id", "asset_type"} :
                 table[v.rule_id].payload[k] = v.rule[k]

\* one request changed asset_id and another the conditions of the same rule;
\* both read the same record, both wrote, and the stored rule has the new
\* conditions and the old asset_id
C24_Witness ==
    \E u, v \in updates :
        /\ u.phase = "stored" /\ v.phase = "stored"
        /\ u.rule_id = v.rule_id
        /\ u.existing_rule = v.existing_rule
        /\ "asset_id" \in DOMAIN u.rule
        /\ "conditions" \in DOMAIN v.rule
        /\ last.arg = [v EXCEPT !.phase = "read"]
        /\ u.rule["asset_id"] # u.existing_rule.m.payload["asset_id"]
        /\ table[v.rule_id].payload["asset_id"] = u.existing_rule.m.payload["asset_id"]
        /\ table[v.rule_id].payload["conditions"] #
              u.existing_rule.m.payload["conditions"]

----------------------------------------------------------------------------
(* Further properties of the API routes, checked under SpecApi *)

\* C28: after any sequence of create and update requests every stored
\* security_rule record satisfies event_id = payload.rule_id, also after an
\* update whose body carries a rule_id other than the identifier in the path.
C28_EventIdIsRuleId ==
    \A id \in DOMAIN table :
        table[id].event_type = "security_rule" =>
            /\ table[id].event_id = id
            /\ table[id].payload["rule_id"] = table[id].event_id

============================================================================
